---- MODULE Spec2Model ----
(***************************************************************************)
(* Model of the two command-line scripts python/train.py and               *)
(* python/generate.py.  Each invocation of a script is an operating-system *)
(* process that runs the statements of its script in order; invocations    *)
(* share nothing but the file system.  The model-library object            *)
(* (textgenrnn) is represented by the number of training passes            *)
(* accumulated in its weights and by where the weights came from.          *)
(***************************************************************************)
EXTENDS Integers, Sequences, FiniteSets, TLC

\* ----------------------------------------------------------------- bounds
MaxRuns   == 2   \* invocations started in one behaviour
MaxCpus   == 3   \* largest initial CPU affinity list
MaxEpochs == 2   \* largest epochs argument
MaxLines  == 2   \* largest line-count argument
MaxChars  == 1   \* largest max-characters argument

Procs == {1, 2}                         \* process slots that may run at once
Paths == {"corpus.txt", "model.bin"}    \* paths the arguments may name

VARIABLES
  fs,         \* file system: path -> file
  runs,       \* invocations started so far
  script,     \* per process: "none", "train" or "generate"
  args,       \* per process: sys.argv[1..]
  pc,         \* per process: the statement it is about to run
  affinity,   \* per process: its current CPU affinity list
  textgen,    \* per process: the script's textgen variable
  out,        \* per process: lengths of the lines written to standard output
  calls,      \* per process: the library calls made so far, in order
  requested,  \* per process: the list handed to the cpu_affinity setter
  aff0,       \* history: the affinity list the process started with
  seenKind,   \* history: kind of the file at the path when it was first examined
  readVer,    \* history: version of the artifact the process started from
  ver,        \* history: number of saves made to each path
  trained     \* history: per path, passes credited by the runs that saved there

vars == <<fs, runs, script, args, pc, affinity, textgen, out, calls, requested,
          aff0, seenKind, readVer, ver, trained>>

\* ------------------------------------------------------------- data model
Absent        == [kind |-> "absent", epochs |-> 0]
Directory     == [kind |-> "dir",    epochs |-> 0]
TextFile      == [kind |-> "text",   epochs |-> 0]
NoModel       == [origin |-> "none", epochs |-> 0]

\* os.path.isfile: true of a regular file, false of a directory or nothing.
IsFile(f) == f.kind \in {"text", "model"}

\* textgenrnn(): the library's model without weights of this program.
FreshModel == [origin |-> "fresh", epochs |-> 0]

\* textgenrnn(path): the weights stored in a model artifact.
CanLoad(f)   == f.kind = "model"
LoadModel(f) == [origin |-> "loaded", epochs |-> f.epochs]

\* textgen.save(path): the artifact written for a model.
SaveModel(h) == [kind |-> "model", epochs |-> h.epochs]

\* train_from_file(corpus, num_epochs = n) on a model.
CanTrain(f)       == f.kind = "text"
TrainModel(h, n)  == [h EXCEPT !.epochs = @ + n]

\* ------------------------------------------------------------ conversions
NumRange == 0 .. (MaxEpochs + MaxLines + MaxChars)

\* int(s): the decimal numerals convert, everything else raises ValueError.
IsInt(s) == \E n \in NumRange : ToString(n) = s
IntOf(s) == CHOOSE n \in NumRange : ToString(n) = s

\* float(s): numerals and decimal fractions convert.
IsFloat(s) == IsInt(s) \/ s = "0.5"

\* sys.argv[i] exists.
HasArg(p, i) == i <= Len(args[p])

\* Variant: the slice starts one entry early (s[1:]).
SliceFrom1(s) == SubSeq(s, 2, Len(s))

\* s[2:] of a Python list.
SliceFrom2(s) == SubSeq(s, 3, Len(s))

\* Variants of the argument wiring below: the epoch count left at a fixed
\* value, the existence check and the save made on the corpus argument, the
\* line count taken from the max-characters argument.
NumEpochs_fixed(p)  == 1
CheckPath_corpus(p) == args[p][1]
SavePath_corpus(p)  == args[p][1]
GenCount_maxlen(p)  == IntOf(args[p][4])

\* Argument wiring of train.py.
CorpusPath(p) == args[p][1]            \* str(sys.argv[1]), line 17
NumEpochs(p)  == IntOf(args[p][2])     \* int(sys.argv[2]), line 17
CheckPath(p)  == args[p][3]            \* str(sys.argv[3]), line 15
LoadPath(p)   == args[p][3]            \* str(sys.argv[3]), line 16
SavePath(p)   == args[p][3]            \* str(sys.argv[3]), line 19

\* Argument wiring of generate.py.
GenPath(p)    == args[p][1]            \* str(sys.argv[1]), line 10
GenCount(p)   == IntOf(args[p][3])     \* int(sys.argv[3]), line 12
GenMaxLen(p)  == IntOf(args[p][4])     \* int(sys.argv[4]), line 12

\* generate(n, max_gen_length = m): n lines of at most m characters each.
GenOutputs(n, m) == [1 .. n -> 0 .. m]

Call(f, x, y) == [fn |-> f, a |-> x, b |-> y]
HasCall(p, f) == \E i \in 1 .. Len(calls[p]) : calls[p][i].fn = f

\* ------------------------------------------------------- command lines
Numerals(lo, hi) == {ToString(n) : n \in lo .. hi}

\* train <corpus> <epochs> <save path>: the well-formed command lines, then one
\* with a corpus that may not be a text file, one with a malformed epoch count
\* and one with the save path left out.
TrainArgv ==
  {<<"corpus.txt", e, s>> : e \in Numerals(1, MaxEpochs), s \in Paths}
    \cup {<<"model.bin", "1", "model.bin">>,
          <<"corpus.txt", "0.5", "model.bin">>,
          <<"corpus.txt", "1">>}

\* generate <load path> <temperature> <lines> <max chars>: the well-formed
\* command lines, then one per argument that does not convert, one cut short
\* and one with no argument at all.
GenArgv ==
  {<<l, "0.5", n, m>> : l \in Paths, n \in Numerals(0, MaxLines), m \in Numerals(1, MaxChars)}
    \cup {<<"model.bin", "abc", "1", "1">>,
          <<"model.bin", "0.5", "abc", "1">>,
          <<"model.bin", "0.5", "1", "0.5">>,
          <<"model.bin", "0.5", "1">>,
          << >>}

\* psutil returns the affinity list sorted; a process has at least one CPU.
CpuList(n) == [i \in 1 .. n |-> i - 1]
AffinityLists == {CpuList(n) : n \in 1 .. MaxCpus}

\* The trainer's inputs: every command line on the largest machine, and one
\* command line on every machine.
TrainInputs ==
  (TrainArgv \X {CpuList(MaxCpus)})
    \cup ({<<"corpus.txt", "1", "model.bin">>} \X AffinityLists)

\* ------------------------------------------------------------------ Init
Init ==
  /\ fs \in {f \in [Paths -> {Absent, Directory, TextFile, SaveModel(FreshModel)}] :
               f["corpus.txt"] = TextFile}
  /\ runs = 0
  /\ script = [p \in Procs |-> "none"]
  /\ args = [p \in Procs |-> << >>]
  /\ pc = [p \in Procs |-> "idle"]
  /\ affinity = [p \in Procs |-> << >>]
  /\ textgen = [p \in Procs |-> NoModel]
  /\ out = [p \in Procs |-> << >>]
  /\ calls = [p \in Procs |-> << >>]
  /\ requested = [p \in Procs |-> << >>]
  /\ aff0 = [p \in Procs |-> << >>]
  /\ seenKind = [p \in Procs |-> "none"]
  /\ readVer = [p \in Procs |-> 0]
  /\ ver = [x \in Paths |-> 0]
  /\ trained = [x \in Paths |-> fs[x].epochs]

Ended(p) == pc[p] \in {"idle", "done", "failed"}

\* A new invocation takes the lowest free process slot; the records of the
\* processes that have exited are dropped when it starts.
FreeSlot(p) == Ended(p) /\ \A q \in Procs : q < p => ~Ended(q)

Reset(f, p, new, idle) == [q \in Procs |-> IF q = p THEN new ELSE IF Ended(q) THEN idle ELSE f[q]]

\* The process state a new invocation starts with.
Launch(p, s, a, cpus, first) ==
  /\ runs < MaxRuns
  /\ FreeSlot(p)
  /\ runs' = runs + 1
  /\ script' = Reset(script, p, s, "none")
  /\ args' = Reset(args, p, a, << >>)
  /\ pc' = Reset(pc, p, first, "idle")
  /\ affinity' = Reset(affinity, p, cpus, << >>)
  /\ aff0' = Reset(aff0, p, cpus, << >>)
  /\ textgen' = Reset(textgen, p, NoModel, NoModel)
  /\ out' = Reset(out, p, << >>, << >>)
  /\ calls' = Reset(calls, p, << >>, << >>)
  /\ requested' = Reset(requested, p, << >>, << >>)
  /\ seenKind' = Reset(seenKind, p, "none", "none")
  /\ readVer' = Reset(readVer, p, 0, 0)
  /\ UNCHANGED <<fs, ver, trained>>

\* A user runs train.py.
StartTrain(p) ==
  \E i \in TrainInputs : Launch(p, "train", i[1], i[2], "affinity")

\* A user runs generate.py.
StartGenerate(p) ==
  \E a \in GenArgv : Launch(p, "generate", a, CpuList(MaxCpus), "load")

\* What a step of process p leaves alone when it touches only its own locals.
Step(p, next) ==
  /\ pc' = [pc EXCEPT ![p] = next]
  /\ UNCHANGED <<runs, script, args, aff0>>

Fail(p) ==
  /\ Step(p, "failed")
  /\ UNCHANGED <<fs, affinity, textgen, out, requested, seenKind, readVer, ver, trained>>

Log(p, c) == calls' = [calls EXCEPT ![p] = Append(@, c)]

\* ------------------------------------------------------------- train.py
\* p.cpu_affinity(p.cpu_affinity()[2:]).  A non-empty list becomes the affinity.
\* An empty list is, depending on the psutil version, either taken to mean all
\* eligible CPUs or rejected; a platform without affinity support raises.
TrainAffinity(p) ==
  /\ pc[p] = "affinity"
  /\ LET req == SliceFrom2(affinity[p]) IN
       /\ Log(p, Call("cpu_affinity", Len(req), 0))
       /\ requested' = [requested EXCEPT ![p] = req]
       /\ \/ /\ req # << >>
             /\ affinity' = [affinity EXCEPT ![p] = req]
             /\ Step(p, "create")
          \/ /\ req = << >>
             /\ affinity' = [affinity EXCEPT ![p] = aff0[p]]
             /\ Step(p, "create")
          \/ /\ UNCHANGED affinity
             /\ Step(p, "failed")
  /\ UNCHANGED <<fs, textgen, out, seenKind, readVer, ver, trained>>

\* textgen = textgenrnn()
TrainCreate(p) ==
  /\ pc[p] = "create"
  /\ Log(p, Call("create", 0, 0))
  /\ textgen' = [textgen EXCEPT ![p] = FreshModel]
  /\ Step(p, "check")
  /\ UNCHANGED <<fs, affinity, out, requested, seenKind, readVer, ver, trained>>

\* if os.path.isfile(str(sys.argv[3])):
TrainCheck(p) ==
  /\ pc[p] = "check"
  /\ \/ /\ ~HasArg(p, 3)
        /\ Fail(p)
     \/ /\ HasArg(p, 3)
        /\ seenKind' = [seenKind EXCEPT ![p] = fs[args[p][3]].kind]
        /\ readVer' = [readVer EXCEPT ![p] = ver[args[p][3]]]
        /\ Step(p, IF IsFile(fs[CheckPath(p)]) THEN "load" ELSE "train")
        /\ UNCHANGED <<fs, affinity, textgen, out, requested, ver, trained>>
  /\ UNCHANGED calls

\* textgen = textgenrnn(str(sys.argv[3]))
TrainLoad(p) ==
  /\ pc[p] = "load"
  /\ Log(p, Call("load", 0, 0))
  /\ \/ /\ CanLoad(fs[LoadPath(p)])
        /\ textgen' = [textgen EXCEPT ![p] = LoadModel(fs[LoadPath(p)])]
        /\ readVer' = [readVer EXCEPT ![p] = ver[LoadPath(p)]]
        /\ Step(p, "train")
        /\ UNCHANGED <<fs, affinity, out, requested, seenKind, ver, trained>>
     \/ /\ ~CanLoad(fs[LoadPath(p)])
        /\ Fail(p)

\* Variant: the save is reached even when training raises.
TrainFit_savesOnError(p) ==
  /\ pc[p] = "train"
  /\ \/ /\ ~IsInt(args[p][2])
        /\ UNCHANGED calls
        /\ Fail(p)
     \/ /\ IsInt(args[p][2])
        /\ Log(p, Call("train", NumEpochs(p), 0))
        /\ \/ /\ CanTrain(fs[CorpusPath(p)])
              /\ textgen' = [textgen EXCEPT ![p] = TrainModel(@, NumEpochs(p))]
              /\ Step(p, "save")
              /\ UNCHANGED <<fs, affinity, out, requested, seenKind, readVer, ver, trained>>
           \/ /\ fs[SavePath(p)].kind # "dir"
              /\ fs' = [fs EXCEPT ![SavePath(p)] = SaveModel(textgen[p])]
              /\ Step(p, "failed")
              /\ UNCHANGED <<affinity, textgen, out, requested, seenKind, readVer, ver, trained>>

\* textgen.train_from_file(str(sys.argv[1]), num_epochs=int(sys.argv[2]))
TrainFit(p) ==
  /\ pc[p] = "train"
  /\ \/ /\ ~IsInt(args[p][2])
        /\ UNCHANGED calls
        /\ Fail(p)
     \/ /\ IsInt(args[p][2])
        /\ Log(p, Call("train", NumEpochs(p), 0))
        /\ \/ /\ CanTrain(fs[CorpusPath(p)])
              /\ textgen' = [textgen EXCEPT ![p] = TrainModel(@, NumEpochs(p))]
              /\ Step(p, "save")
              /\ UNCHANGED <<fs, affinity, out, requested, seenKind, readVer, ver, trained>>
           \/ Fail(p)

\* Variant: the passes of this run are added to whatever the file holds.
SavedArtifact_merge(p) ==
  [kind |-> "model", epochs |-> fs[args[p][3]].epochs + IntOf(args[p][2])]

\* What textgen.save writes: the model the script holds.
SavedArtifact(p) == SaveModel(textgen[p])

\* textgen.save(str(sys.argv[3]))
TrainSave(p) ==
  /\ pc[p] = "save"
  /\ Log(p, Call("save", 0, 0))
  /\ \/ /\ fs[SavePath(p)].kind # "dir"
        /\ fs' = [fs EXCEPT ![SavePath(p)] = SavedArtifact(p)]
        /\ ver' = [ver EXCEPT ![SavePath(p)] = @ + 1]
        /\ trained' = [trained EXCEPT ![SavePath(p)] = @ + IntOf(args[p][2])]
        /\ Step(p, "done")
        /\ UNCHANGED <<affinity, textgen, out, requested, seenKind, readVer>>
     \/ /\ fs[SavePath(p)].kind = "dir"
        /\ Fail(p)

\* ---------------------------------------------------------- generate.py
\* Variant: a load that fails falls back to the library's own model, as
\* train.py does when the file is missing.
GenLoad_fallback(p) ==
  /\ pc[p] = "load"
  /\ \/ /\ ~HasArg(p, 1)
        /\ UNCHANGED calls
        /\ Fail(p)
     \/ /\ HasArg(p, 1)
        /\ Log(p, Call("load", 0, 0))
        /\ seenKind' = [seenKind EXCEPT ![p] = fs[args[p][1]].kind]
        /\ textgen' = [textgen EXCEPT ![p] =
                         IF CanLoad(fs[GenPath(p)]) THEN LoadModel(fs[GenPath(p)])
                         ELSE FreshModel]
        /\ Step(p, "generate")
        /\ UNCHANGED <<fs, affinity, out, requested, readVer, ver, trained>>

\* Variant: the load opens the path for writing and so creates a missing file.
GenLoad_creating(p) ==
  /\ pc[p] = "load"
  /\ \/ /\ ~HasArg(p, 1)
        /\ UNCHANGED calls
        /\ Fail(p)
     \/ /\ HasArg(p, 1)
        /\ Log(p, Call("load", 0, 0))
        /\ seenKind' = [seenKind EXCEPT ![p] = fs[args[p][1]].kind]
        /\ \/ /\ CanLoad(fs[GenPath(p)])
              /\ textgen' = [textgen EXCEPT ![p] = LoadModel(fs[GenPath(p)])]
              /\ Step(p, "generate")
              /\ UNCHANGED fs
           \/ /\ ~CanLoad(fs[GenPath(p)])
              /\ UNCHANGED textgen
              /\ fs' = [fs EXCEPT ![GenPath(p)] =
                         IF @.kind = "absent" THEN TextFile ELSE @]
              /\ Step(p, "failed")
        /\ UNCHANGED <<affinity, out, requested, readVer, ver, trained>>

\* textgen = textgenrnn(str(sys.argv[1]))
GenLoad(p) ==
  /\ pc[p] = "load"
  /\ \/ /\ ~HasArg(p, 1)
        /\ UNCHANGED calls
        /\ Fail(p)
     \/ /\ HasArg(p, 1)
        /\ Log(p, Call("load", 0, 0))
        /\ seenKind' = [seenKind EXCEPT ![p] = fs[args[p][1]].kind]
        /\ \/ /\ CanLoad(fs[GenPath(p)])
              /\ textgen' = [textgen EXCEPT ![p] = LoadModel(fs[GenPath(p)])]
              /\ Step(p, "generate")
           \/ /\ ~CanLoad(fs[GenPath(p)])
              /\ UNCHANGED textgen
              /\ Step(p, "failed")
        /\ UNCHANGED <<fs, affinity, out, requested, readVer, ver, trained>>

\* Variant: the temperature is handed over without float().
GenArgsConvert_noFloat(p) ==
  /\ HasArg(p, 4)
  /\ IsInt(args[p][3])
  /\ IsInt(args[p][4])

\* The arguments of line 12 convert: int(argv[3]), float(argv[2]), int(argv[4]).
GenArgsConvert(p) ==
  /\ HasArg(p, 4)
  /\ IsInt(args[p][3])
  /\ IsFloat(args[p][2])
  /\ IsInt(args[p][4])

\* textgen.generate(int(sys.argv[3]), temperature=float(sys.argv[2]),
\*                  max_gen_length=int(sys.argv[4]))
GenGenerate(p) ==
  /\ pc[p] = "generate"
  /\ \/ /\ ~GenArgsConvert(p)
        /\ UNCHANGED calls
        /\ Fail(p)
     \/ /\ GenArgsConvert(p)
        /\ Log(p, Call("generate", GenCount(p), GenMaxLen(p)))
        /\ \/ /\ \E lines \in GenOutputs(GenCount(p), GenMaxLen(p)) :
                   out' = [out EXCEPT ![p] = lines]
              /\ Step(p, "done")
              /\ UNCHANGED <<fs, affinity, textgen, requested, seenKind, readVer, ver, trained>>
           \/ Fail(p)

\* ------------------------------------------------------------------ Next
Next ==
  \E p \in Procs :
    \/ StartTrain(p)
    \/ StartGenerate(p)
    \/ (script[p] = "train" /\ TrainAffinity(p))
    \/ (script[p] = "train" /\ TrainCreate(p))
    \/ (script[p] = "train" /\ TrainCheck(p))
    \/ (script[p] = "train" /\ TrainLoad(p))
    \/ (script[p] = "train" /\ TrainFit(p))
    \/ (script[p] = "train" /\ TrainSave(p))
    \/ (script[p] = "generate" /\ GenLoad(p))
    \/ (script[p] = "generate" /\ GenGenerate(p))

Spec == Init /\ [][Next]_vars

\* The same scripts when the user never runs two invocations at once.
NoneRunning == \A q \in Procs : Ended(q)

NextSeq ==
  \E p \in Procs :
    \/ (NoneRunning /\ StartTrain(p))
    \/ (NoneRunning /\ StartGenerate(p))
    \/ (script[p] = "train" /\ TrainAffinity(p))
    \/ (script[p] = "train" /\ TrainCreate(p))
    \/ (script[p] = "train" /\ TrainCheck(p))
    \/ (script[p] = "train" /\ TrainLoad(p))
    \/ (script[p] = "train" /\ TrainFit(p))
    \/ (script[p] = "train" /\ TrainSave(p))
    \/ (script[p] = "generate" /\ GenLoad(p))
    \/ (script[p] = "generate" /\ GenGenerate(p))

SpecSeq == Init /\ [][NextSeq]_vars

\* ================================================================ claims
Trainer(p)   == script[p] = "train"
Generator(p) == script[p] = "generate"
RegularFile(k) == k \in {"text", "model"}
CallCount(p, f) == Cardinality({i \in 1 .. Len(calls[p]) : calls[p][i].fn = f})
Max(a, b) == IF a >= b THEN a ELSE b

\* C1: a Trainer loads the model from the save path exactly when the save path
\* was a regular file at the moment of the isfile check; when it was absent or
\* a directory the model that is trained is the freshly created one.  This is
\* so for every corpus and epochs argument.
C1_LoadIffFileAtCheck ==
  \A p \in Procs :
    (Trainer(p) /\ seenKind[p] # "none") =>
      /\ pc[p] = "load" => RegularFile(seenKind[p])
      /\ pc[p] # "load" => (HasCall(p, "load") <=> RegularFile(seenKind[p]))
      /\ HasCall(p, "train") =>
           (textgen[p].origin = "loaded" <=> RegularFile(seenKind[p]))
      /\ HasCall(p, "train") => textgen[p].origin \in {"loaded", "fresh"}

C1_Witness ==
  \E p \in Procs :
    /\ Trainer(p) /\ HasCall(p, "train")
    /\ textgen[p].origin = "loaded" /\ seenKind[p] = "model"

\* C2: the step that completes a Trainer run leaves at the save path an
\* artifact that loads, and loading it gives the passes of the model the run
\* has just trained, whatever was at the path before (nothing included).
C2_SaveRoundTrip ==
  [][\A p \in Procs :
       (Trainer(p) /\ pc[p] = "save" /\ pc'[p] = "done") =>
         /\ CanLoad(fs'[args[p][3]])
         /\ LoadModel(fs'[args[p][3]]).epochs = textgen[p].epochs
         /\ HasCall(p, "train")]_vars

C2_Witness ==
  \E p \in Procs :
    /\ Trainer(p) /\ pc[p] = "done" /\ seenKind[p] = "absent"
    /\ CanLoad(fs[args[p][3]])
    /\ LoadModel(fs[args[p][3]]).epochs = IntOf(args[p][2])

\* C3: when Trainer runs do not overlap, every run makes one train call whose
\* num_epochs is its epochs argument, and every artifact holds the sum of the
\* epochs arguments of the runs that saved to its path.
C3_EpochsAccumulate ==
  /\ \A p \in Procs :
       (Trainer(p) /\ HasCall(p, "train")) =>
         /\ CallCount(p, "train") = 1
         /\ \A i \in 1 .. Len(calls[p]) :
              calls[p][i].fn = "train" => calls[p][i].a = IntOf(args[p][2])
  /\ \A x \in Paths : fs[x].kind = "model" => fs[x].epochs = trained[x]

\* Two runs with epochs = N, one after the other: the artifact holds 2N passes.
C3_Witness ==
  \E p \in Procs :
    /\ Trainer(p) /\ pc[p] = "done" /\ runs = 2
    /\ textgen[p].origin = "loaded"
    /\ fs[args[p][3]].epochs = 2 * IntOf(args[p][2])

C5_MissingModelFailsFast ==
  \A p \in Procs :
    (Generator(p) /\ seenKind[p] \notin {"none", "model"}) =>
      /\ pc[p] = "failed"
      /\ out[p] = << >>
      /\ ~HasCall(p, "generate")

C5_Witness ==
  \E p \in Procs :
    Generator(p) /\ seenKind[p] = "absent" /\ pc[p] = "failed"

\* C6: no step of a Generator changes the file system, whatever the Trainers
\* running beside it are doing.
C6_GeneratorWritesNothing ==
  [][(\E p \in Procs : Generator(p) /\ script'[p] = "generate" /\ pc'[p] # pc[p])
       => fs' = fs]_vars

C6_Witness ==
  \E p, q \in Procs :
    /\ Generator(p) /\ pc[p] = "done" /\ out[p] # << >>
    /\ Trainer(q) /\ pc[q] = "save"

Malformed(p) ==
  \/ Trainer(p) /\ (Len(args[p]) < 3 \/ ~IsInt(args[p][2]))
  \/ Generator(p) /\ (Len(args[p]) < 4 \/ ~IsInt(args[p][3])
                        \/ ~IsFloat(args[p][2]) \/ ~IsInt(args[p][4]))

\* C8 as stated: a run with a malformed command line makes no library call and
\* no affinity change.
C8_Original == \A p \in Procs : Malformed(p) => calls[p] = << >>

\* C8 amended: a malformed argument is noticed only by the statement that
\* converts it.  Such a run never makes a train, save or generate call, writes
\* no line and never completes; but a Trainer has by then changed the affinity
\* and created (and possibly loaded) a model, and a Generator has loaded one.
C8_MalformedStopsBeforeUse ==
  \A p \in Procs :
    Malformed(p) =>
      /\ ~HasCall(p, "train") /\ ~HasCall(p, "save") /\ ~HasCall(p, "generate")
      /\ out[p] = << >>
      /\ pc[p] \notin {"save", "done"}
      /\ (Trainer(p) /\ pc[p] = "failed") => HasCall(p, "cpu_affinity")
      /\ (Generator(p) /\ pc[p] = "failed" /\ Len(args[p]) > 0) => HasCall(p, "load")

C8_Witness ==
  \E p \in Procs :
    /\ Trainer(p) /\ ~IsInt(args[p][2]) /\ pc[p] = "failed"
    /\ HasCall(p, "cpu_affinity") /\ HasCall(p, "create") /\ HasCall(p, "load")

\* Two finished Trainers that named the same save path and started from the
\* same version of it, with no other save to the path since.
Raced(p, q) ==
  /\ p # q /\ Trainer(p) /\ Trainer(q)
  /\ pc[p] = "done" /\ pc[q] = "done"
  /\ args[p][3] = args[q][3]
  /\ readVer[p] = readVer[q]
  /\ ver[args[p][3]] = readVer[p] + 2

\* C9: nothing keeps two Trainers on one save path apart.  When both started
\* from the same state of the path, the artifact left is the one of the run
\* that saved last: it holds the passes of one run on top of the common start,
\* never the sum of both.
C9_LastSaveWins ==
  \A p, q \in Procs :
    Raced(p, q) =>
      /\ textgen[p].epochs - IntOf(args[p][2]) = textgen[q].epochs - IntOf(args[q][2])
      /\ fs[args[p][3]].epochs \in {textgen[p].epochs, textgen[q].epochs}
      /\ fs[args[p][3]].epochs < textgen[p].epochs + IntOf(args[q][2])

C9_Witness ==
  \E p, q \in Procs :
    /\ Raced(p, q)
    /\ textgen[p].origin = "loaded" /\ textgen[q].origin = "loaded"
    /\ fs[args[p][3]].epochs = textgen[p].epochs

\* C10: the only Trainer step that changes the file system is the save that
\* completes the run; the save call is the last call of a run and directly
\* follows a train call that returned.
C10_OnlyFinalSaveWrites ==
  [][\A p \in Procs :
       /\ (Trainer(p) /\ script'[p] = "train" /\ pc'[p] # pc[p]
             /\ ~(pc[p] = "save" /\ pc'[p] = "done")) => fs' = fs
       /\ (Trainer(p) /\ HasCall(p, "save")) =>
            /\ calls[p][Len(calls[p])].fn = "save"
            /\ calls[p][Len(calls[p]) - 1].fn = "train"
            /\ pc[p] \in {"done", "failed"}]_vars

C10_Witness ==
  \E p \in Procs :
    /\ Trainer(p) /\ pc[p] = "failed" /\ HasCall(p, "train")
    /\ seenKind[p] = "absent" /\ fs[args[p][3]] = Absent

====
